---- MODULE Spec2Model ----
\* Model of app.py: the Streamlit "AI Video Generator from Audio" page.
\* One Generate action of main() is modelled step by step (transcription,
\* prompt composition, generator call, result display), with the temporary
\* files, the messages written to the page and the outbound requests.
EXTENDS Integers, Sequences, FiniteSets, TLC

\* ---------------------------------------------------------------- bounds
\* Number of Generate actions (button presses) explored.
MaxActions == 2
\* Length of the longest description typed in the text area.
MaxPromptLen == 130

\* ------------------------------------------------------------- literals
\* Strings are sequences of one-character strings.
StoryText ==
    <<"A"," ","p","e","r","s","o","n"," ","n","a","r","r","a","t","i","n","g",
      " ","a"," ","s","t","o","r","y"," ","a","b","o","u","t"," ","c","r","e",
      "a","t","i","n","g"," ","a","m","a","z","i","n","g"," ","v","i","d","e",
      "o","s"," ","w","i","t","h"," ","a","r","t","i","f","i","c","i","a","l",
      " ","i","n","t","e","l","l","i","g","e","n","c","e",".">>

FallbackText ==
    <<"A"," ","c","r","e","a","t","i","v","e"," ","v","i","d","e","o"," ","s",
      "h","o","w","c","a","s","i","n","g"," ","t","e","c","h","n","o","l","o",
      "g","y"," ","a","n","d"," ","i","n","n","o","v","a","t","i","o","n",".">>

AudioContext ==
    <<"."," ","A","u","d","i","o"," ","c","o","n","t","e","x","t",":"," ">>

OverlayHeader ==
    <<"A","I"," ","G","e","n","e","r","a","t","e","d"," ","V","i","d","e","o",
      "\n","\n","P","r","o","m","p","t",":"," ">>

Ellipsis ==
    <<".",".",".">>

\* prompt[:100]
PromptSlice == 100

\* API_OPTIONS keys
API_OPTIONS == {"RunwayML", "Stability AI", "Hugging Face (Demo)"}

\* The value of an unset path (Python None); file paths are 1, 2, ...
None == 0

\* "no exception"
NoExc == ""

\* ------------------------------------------------------------- inputs
Alphabet == <<"a","b","c","d","e","f","g">>

\* A typed description of n characters, no two neighbours equal.
TypedText(n) == [i \in 1..n |-> Alphabet[(i % 7) + 1]]

\* Descriptions the user may type: empty, medium, long.
VideoPrompts == {TypedText(0), TypedText(40), TypedText(MaxPromptLen)}

\* Uploaded audio content (bytes), the api key field, the sidebar settings.
AudioFiles == {<<1>>, <<2, 3>>}

ApiKeys == {"", "sk-key"}

\* Two of the sidebar's combinations: the defaults and the largest values.
SettingsSet == {[duration |-> 4, resolution |-> <<"5","1","2","x","5","1","2">>],
                [duration |-> 10,
                 resolution |-> <<"1","0","2","4","x","1","0","2","4">>]}

\* ------------------------------------------------------------ helpers
Min(a, b) == IF a < b THEN a ELSE b

\* s[:n]
Slice(s, n) == SubSeq(s, 1, Min(n, Len(s)))

\* Python exception classes raised by the modelled steps and their bases.
BaseOf(cls) ==
    CASE cls = "Timeout" -> "RequestException"
      [] cls = "HTTPError" -> "RequestException"
      [] cls = "RequestException" -> "OSError"
      [] cls = "OSError" -> "Exception"
      [] cls = "ImportError" -> "Exception"
      [] cls = "StreamlitAPIException" -> "Exception"
      [] OTHER -> "BaseException"

RECURSIVE IsSubclass(_, _)
IsSubclass(exc, cls) ==
    IF exc = cls THEN TRUE
    ELSE IF exc = "BaseException" THEN FALSE
    ELSE IsSubclass(BaseOf(exc), cls)

\* int(digits)
RECURSIVE ParseInt(_)
ParseInt(ds) ==
    IF ds = <<>> THEN 0
    ELSE 10 * ParseInt(SubSeq(ds, 1, Len(ds) - 1)) +
         (CHOOSE d \in 0..9 :
            <<"0","1","2","3","4","5","6","7","8","9">>[d + 1] = ds[Len(ds)])

\* map(int, resolution.split('x'))
ParseResolution(res) ==
    LET x == CHOOSE i \in 1..Len(res) : res[i] = "x"
    IN  <<ParseInt(SubSeq(res, 1, x - 1)), ParseInt(SubSeq(res, x + 1, Len(res)))>>

\* Variant: a fixed file name instead of a fresh one.
NamedTemporaryFile_Fixed(fs) == 1

\* tempfile.NamedTemporaryFile(delete=False): a path no file ever had.
NamedTemporaryFile(fs) == Len(fs) + 1

\* The file system after creating the file `path`.
CreateFile(fs, path, rec) ==
    IF path \in DOMAIN fs THEN [fs EXCEPT ![path] = rec] ELSE Append(fs, rec)

\* os.unlink(path)
Unlink(fs, path) == [fs EXCEPT ![path].exists = FALSE]

\* os.path.exists(path)
PathExists(fs, path) == path \in DOMAIN fs /\ fs[path].exists

\* ------------------------------------------------------------- state
VARIABLES
    pc,             \* position of main(): "idle" or the next step of the action
    action,         \* number of Generate presses so far
    moviepy,        \* whether "from moviepy.editor import ..." succeeds
    selected_api,   \* sidebar selectbox
    api_key,        \* sidebar text input
    settings,       \* sidebar settings
    audio_file,     \* uploaded audio (<<>> before any upload)
    video_prompt,   \* text area
    transcription,  \* local of main()
    final_prompt,   \* local of main()
    video_path,     \* local of main()
    files,          \* temporary files ever created: suffix, creator, exists
    ui,             \* messages and widgets written to the page by this run
    calls,          \* calls, requests and encodes made by this action
    steps,          \* steps of main() executed by this action, in order
    faults,         \* what went wrong in this action, per step
    rendered,       \* text handed to TextClip by this action
    clip,           \* <<width, height, duration>> of the composed clip
    outputs,        \* paths returned by generators, with the action
    accesses,       \* reads and deletions of files, with the action
    uncaught,       \* an exception left main()
    prevFailed,     \* an earlier action ended in failure
    repeated        \* this press repeats the inputs of the previous output

vars == <<pc, action, moviepy, selected_api, api_key, settings, audio_file,
          video_prompt, transcription, final_prompt, video_path, files, ui,
          calls, steps, faults, rendered, clip, outputs, accesses, uncaught,
          prevFailed, repeated>>

NoCalls == [transcribe |-> 0, runway |-> 0, stability |-> 0, huggingface |-> 0,
            request |-> 0, encode |-> 0]

NoFaults == [key |-> FALSE, transcribe |-> NoExc, generate |-> NoExc,
             display |-> NoExc, escaped |-> FALSE]

Init ==
    /\ pc = "idle"
    /\ action = 0
    /\ moviepy \in BOOLEAN
    /\ selected_api = "RunwayML"
    /\ api_key = ""
    /\ settings = [duration |-> 4, resolution |-> <<"5","1","2","x","5","1","2">>]
    /\ audio_file = <<>>
    /\ video_prompt = <<>>
    /\ transcription = <<>>
    /\ final_prompt = <<>>
    /\ video_path = None
    /\ files = <<>>
    /\ ui = {}
    /\ calls = NoCalls
    /\ steps = <<>>
    /\ faults = NoFaults
    /\ rendered = <<>>
    /\ clip = <<>>
    /\ outputs = <<>>
    /\ accesses = {}
    /\ uncaught = FALSE
    /\ prevFailed = FALSE
    /\ repeated = "no"

\* ------------------------------------------------- decisions of the code
\* Variant: the key is required for every service.
KeyMissing_Always(key, api) == key = ""

\* main: "if not api_key and selected_api != 'Hugging Face (Demo)'"
KeyMissing(key, api) == key = "" /\ api # "Hugging Face (Demo)"

\* Variant: the elif branch calls the wrong generator.
SelectGenerator_Swapped(api) ==
    IF api = "RunwayML" THEN "runway"
    ELSE IF api = "Stability AI" THEN "huggingface"
    ELSE "stability"

\* main: the if / elif / else that picks the generator
SelectGenerator(api) ==
    IF api = "RunwayML" THEN "runway"
    ELSE IF api = "Stability AI" THEN "stability"
    ELSE "huggingface"

\* Variant: the generator is called before the transcription.
StepAfter_GenerateFirst(step) ==
    CASE step = "click" -> "generate"
      [] step = "transcribe" -> "compose"
      [] step = "compose" -> "generate"
      [] step = "generate" -> "results"

\* main: the statement order inside the try block
StepAfter(step) ==
    CASE step = "click" -> "transcribe"
      [] step = "transcribe" -> "compose"
      [] step = "compose" -> "generate"
      [] step = "generate" -> "results"

\* main: "if video_path and os.path.exists(video_path)"
ShouldDisplay(path, fs) == path # None /\ PathExists(fs, path)

\* Variant: main only handles network errors.
MainCatches_RequestsOnly(exc) == IsSubclass(exc, "RequestException")

\* main: "except Exception as e"
MainCatches(exc) == IsSubclass(exc, "Exception")

\* Variant: the status of the response is not checked.
RaiseForStatus_Never(status) == FALSE

\* response.raise_for_status()
RaiseForStatus(status) == status >= 400 /\ status < 600

\* Variant: the except branch returns the same text as the try branch.
TranscribeReturn_AlwaysStory(exc) ==
    IF exc = NoExc THEN StoryText
    ELSE IF IsSubclass(exc, "Exception") THEN StoryText
    ELSE <<>>

\* transcribe_audio: the value returned, given the exception raised in its try
TranscribeReturn(exc) ==
    IF exc = NoExc THEN StoryText
    ELSE IF IsSubclass(exc, "Exception") THEN FallbackText
    ELSE <<>>

\* generate_video_runway / generate_video_stability: "except Exception as e"
GeneratorCatches(exc) == IsSubclass(exc, "Exception")

\* Variant: no separate "except ImportError" clause.
HuggingfaceClause_NoImportClause(exc) ==
    IF IsSubclass(exc, "Exception") THEN "hf_error" ELSE "none"

\* generate_video_huggingface: which except clause handles exc
HuggingfaceClause(exc) ==
    IF IsSubclass(exc, "ImportError") THEN "moviepy_required"
    ELSE IF IsSubclass(exc, "Exception") THEN "hf_error"
    ELSE "none"

\* Variant: the prompt is not sliced.
TextContent_Full(prompt) == OverlayHeader \o prompt \o Ellipsis

\* generate_video_huggingface: text_content
TextContent(prompt) == OverlayHeader \o Slice(prompt, PromptSlice) \o Ellipsis

\* main: final_prompt
FinalPrompt(prompt, text) ==
    IF prompt # <<>> THEN prompt \o AudioContext \o text ELSE text

\* --------------------------------------------------------- environment
TranscribeOutcomes == {"ok", "create_fail", "write_fail", "unlink_fail"}
NetOutcomes == {"timeout", "response"}
Statuses == {200, 404, 500}
DiskOutcomes == {"ok", "create_fail", "write_fail"}
HfOutcomes == {"ok", "render_fail", "create_fail", "encode_fail"}
DisplayOutcomes == {"ok", "video_fail", "download_fail", "unlink_fail"}

\* What the environment did to an HTTP generator call ("" when nothing failed).
HttpFault(net, status, disk) ==
    IF net = "timeout" THEN "timeout"
    ELSE IF status >= 400 THEN "http_error"
    ELSE IF disk # "ok" THEN disk
    ELSE NoExc

\* ------------------------------------------------------------- actions
\* main returns: its locals are gone.
Return(failed) ==
    /\ pc' = "idle"
    /\ transcription' = <<>>
    /\ final_prompt' = <<>>
    /\ video_path' = None
    /\ prevFailed' = (prevFailed \/ failed)

\* An exception reaches the try block of main.
ExceptInMain(exc, shown) ==
    /\ IF MainCatches(exc)
       THEN ui' = shown \cup {"error", "tip"} /\ uncaught' = uncaught
       ELSE ui' = shown \cup {"traceback"} /\ uncaught' = TRUE
    /\ Return(TRUE)

\* The widgets as the user left them when pressing the button.
ReadWidgets(api, key, cfg, audio, prompt) ==
    /\ selected_api' = api
    /\ api_key' = key
    /\ settings' = cfg
    /\ audio_file' = audio
    /\ video_prompt' = prompt

\* Whether the widgets are as they were when the previous action, which
\* returned a video, was started; and what that action's transcription was.
Repeats(api, key, cfg, audio, prompt) ==
    IF /\ outputs # <<>>
       /\ outputs[Len(outputs)].action = action
       /\ <<api, key, cfg, audio, prompt>> =
             <<selected_api, api_key, settings, audio_file, video_prompt>>
    THEN (IF faults.transcribe = NoExc THEN "story" ELSE "fallback")
    ELSE "no"

\* A new run of the script starts with an empty page.
NewRun ==
    /\ action' = action + 1
    /\ calls' = NoCalls
    /\ steps' = <<>>
    /\ rendered' = <<>>
    /\ clip' = <<>>

\* Generate pressed without the key the selected service needs.
ClickKeyMissing ==
    /\ pc = "idle"
    /\ action < MaxActions
    /\ \E api \in API_OPTIONS, key \in ApiKeys, cfg \in SettingsSet,
          audio \in AudioFiles, prompt \in VideoPrompts :
          /\ KeyMissing(key, api)
          /\ ReadWidgets(api, key, cfg, audio, prompt)
          /\ repeated' = "no"
    /\ NewRun
    /\ ui' = {"key_required"}
    /\ faults' = [NoFaults EXCEPT !.key = TRUE]
    /\ prevFailed' = TRUE
    /\ UNCHANGED <<pc, moviepy, transcription, final_prompt, video_path, files,
                   outputs, accesses, uncaught>>

\* Generate pressed: the try block of main is entered.
ClickGenerate ==
    /\ pc = "idle"
    /\ action < MaxActions
    /\ \E api \in API_OPTIONS, key \in ApiKeys, cfg \in SettingsSet,
          audio \in AudioFiles, prompt \in VideoPrompts :
          /\ ~KeyMissing(key, api)
          /\ ReadWidgets(api, key, cfg, audio, prompt)
          /\ repeated' = Repeats(api, key, cfg, audio, prompt)
    /\ NewRun
    /\ ui' = {}
    /\ faults' = NoFaults
    /\ pc' = StepAfter("click")
    /\ UNCHANGED <<moviepy, transcription, final_prompt, video_path, files,
                   outputs, accesses, uncaught, prevFailed>>

\* transcription = transcribe_audio(audio_file, api_key)
Transcribe ==
    /\ pc = "transcribe"
    /\ \E o \in TranscribeOutcomes :
         LET path == NamedTemporaryFile(files)
             exc == IF o = "ok" THEN NoExc ELSE "OSError"
             made == CreateFile(files, path,
                        [suffix |-> ".wav", creator |-> action, exists |-> TRUE])
             text == TranscribeReturn(exc)
         IN  /\ files' = CASE o = "create_fail" -> files
                           [] o = "ok" -> Unlink(made, path)
                           [] OTHER -> made
             /\ accesses' = IF o = "ok"
                            THEN accesses \cup {[file |-> path, by |-> action,
                                                 op |-> "unlink"]}
                            ELSE accesses
             /\ faults' = [faults EXCEPT !.transcribe = exc]
             /\ calls' = [calls EXCEPT !.transcribe = @ + 1]
             /\ steps' = Append(steps, "transcribe")
             /\ IF text # <<>>
                THEN /\ ui' = (IF exc = NoExc THEN ui
                               ELSE ui \cup {"transcription_error"})
                              \cup {"transcription"}
                     /\ transcription' = text
                     /\ pc' = StepAfter("transcribe")
                     /\ UNCHANGED <<final_prompt, video_path, uncaught, prevFailed>>
                ELSE ExceptInMain(exc, ui)
    /\ UNCHANGED <<action, moviepy, selected_api, api_key, settings, audio_file,
                   video_prompt, rendered, clip, outputs, repeated>>

\* final_prompt = ...; st.write(final prompt)
Compose ==
    /\ pc = "compose"
    /\ final_prompt' = FinalPrompt(video_prompt, transcription)
    /\ ui' = ui \cup {"final_prompt"}
    /\ steps' = Append(steps, "compose")
    /\ pc' = StepAfter("compose")
    /\ UNCHANGED <<action, moviepy, selected_api, api_key, settings, audio_file,
                   video_prompt, transcription, video_path, files, calls, faults,
                   rendered, clip, outputs, accesses, uncaught, prevFailed,
                   repeated>>

\* The generator returned `path` (None after a handled failure) or raised exc.
GeneratorReturns(path, msgs, escaped) ==
    IF escaped = NoExc
    THEN /\ video_path' = path
         /\ outputs' = IF path = None THEN outputs
                       ELSE Append(outputs, [action |-> action, path |-> path])
         /\ ui' = ui \cup msgs
         /\ pc' = StepAfter("generate")
         /\ UNCHANGED <<transcription, final_prompt, uncaught, prevFailed>>
    ELSE /\ outputs' = outputs
         /\ ExceptInMain(escaped, ui \cup msgs)

\* One POST to a video API, the response body saved to a temporary .mp4.
HttpGenerator(name, message) ==
    /\ pc = "generate"
    /\ SelectGenerator(selected_api) = name
    /\ \E net \in NetOutcomes, status \in Statuses, disk \in DiskOutcomes :
         LET path == NamedTemporaryFile(files)
             exc == IF net = "timeout" THEN "Timeout"
                    ELSE IF RaiseForStatus(status) THEN "HTTPError"
                    ELSE IF disk # "ok" THEN "OSError"
                    ELSE NoExc
             creates == net = "response" /\ ~RaiseForStatus(status)
                        /\ disk # "create_fail"
         IN  /\ files' = IF creates
                         THEN CreateFile(files, path, [suffix |-> ".mp4",
                                  creator |-> action, exists |-> TRUE])
                         ELSE files
             /\ calls' = [calls EXCEPT ![name] = @ + 1, !.request = @ + 1]
             /\ faults' = [faults EXCEPT
                             !.generate = HttpFault(net, status, disk),
                             !.escaped = exc # NoExc /\ ~GeneratorCatches(exc)]
             /\ IF exc = NoExc THEN GeneratorReturns(path, {}, NoExc)
                ELSE IF GeneratorCatches(exc)
                     THEN GeneratorReturns(None, {message}, NoExc)
                     ELSE GeneratorReturns(None, {}, exc)
    /\ steps' = Append(steps, "generate")
    /\ UNCHANGED <<action, moviepy, selected_api, api_key, settings, audio_file,
                   video_prompt, rendered, clip, accesses, repeated>>

\* video_path = generate_video_runway(final_prompt, settings, api_key)
GenerateRunway == HttpGenerator("runway", "runway_error")

\* video_path = generate_video_stability(final_prompt, settings, api_key)
GenerateStability == HttpGenerator("stability", "stability_error")

\* video_path = generate_video_huggingface(final_prompt, settings, api_key)
GenerateHuggingface ==
    /\ pc = "generate"
    /\ SelectGenerator(selected_api) = "huggingface"
    /\ \E o \in HfOutcomes :
         LET path == NamedTemporaryFile(files)
             exc == IF ~moviepy THEN "ImportError"
                    ELSE IF o = "ok" THEN NoExc ELSE "OSError"
             composed == moviepy
             creates == moviepy /\ o \in {"ok", "encode_fail"}
             size == ParseResolution(settings.resolution)
             clause == HuggingfaceClause(exc)
         IN  /\ files' = IF creates
                         THEN CreateFile(files, path, [suffix |-> ".mp4",
                                  creator |-> action, exists |-> TRUE])
                         ELSE files
             /\ rendered' = IF composed THEN TextContent(final_prompt) ELSE rendered
             /\ clip' = IF composed /\ o # "render_fail"
                        THEN <<size[1], size[2], settings.duration>> ELSE clip
             /\ calls' = [calls EXCEPT !.huggingface = @ + 1,
                             !.encode = IF creates THEN @ + 1 ELSE @]
             /\ faults' = [faults EXCEPT
                             !.generate = IF ~moviepy THEN "import_fail"
                                          ELSE IF o = "ok" THEN NoExc ELSE o,
                             !.escaped = exc # NoExc /\ clause = "none"]
             /\ IF exc = NoExc THEN GeneratorReturns(path, {}, NoExc)
                ELSE IF clause # "none"
                     THEN GeneratorReturns(None, {clause}, NoExc)
                     ELSE GeneratorReturns(None, {}, exc)
    /\ steps' = Append(steps, "generate")
    /\ UNCHANGED <<action, moviepy, selected_api, api_key, settings, audio_file,
                   video_prompt, accesses, repeated>>

\* The success branch: show the video, offer the download, delete the file.
DisplayVideo ==
    /\ pc = "results"
    /\ ShouldDisplay(video_path, files)
    /\ \E d \in (IF PathExists(files, video_path) THEN DisplayOutcomes
                 ELSE {"video_fail"}) :
         LET read == [file |-> video_path, by |-> action, op |-> "read"]
             del == [file |-> video_path, by |-> action, op |-> "unlink"]
             exc == CASE d = "ok" -> NoExc
                      [] d = "video_fail" -> "StreamlitAPIException"
                      [] OTHER -> "OSError"
             shown == CASE d = "video_fail" -> {"success"}
                        [] d = "download_fail" -> {"success", "video", "caption"}
                        [] OTHER -> {"success", "video", "caption", "download"}
         IN  /\ accesses' = CASE ~PathExists(files, video_path) -> accesses
                              [] d = "ok" -> accesses \cup {read, del}
                              [] OTHER -> accesses \cup {read}
             /\ files' = IF d = "ok" THEN Unlink(files, video_path) ELSE files
             /\ steps' = IF d \in {"ok", "unlink_fail"}
                         THEN steps \o <<"display", "delete">>
                         ELSE Append(steps, "display")
             /\ faults' = [faults EXCEPT !.display = exc]
             /\ IF exc = NoExc
                THEN /\ ui' = ui \cup shown
                     /\ uncaught' = uncaught
                     /\ Return(faults.transcribe # NoExc)
                ELSE ExceptInMain(exc, ui \cup shown)
    /\ UNCHANGED <<action, moviepy, selected_api, api_key, settings, audio_file,
                   video_prompt, calls, rendered, clip, outputs, repeated>>

\* The else branch: "Failed to generate video. Please try again."
ShowFailure ==
    /\ pc = "results"
    /\ ~ShouldDisplay(video_path, files)
    /\ ui' = ui \cup {"failed"}
    /\ steps' = Append(steps, "failure")
    /\ Return(TRUE)
    /\ UNCHANGED <<action, moviepy, selected_api, api_key, settings, audio_file,
                   video_prompt, files, calls, faults, rendered, clip, outputs,
                   accesses, uncaught, repeated>>

Next ==
    \/ ClickKeyMissing
    \/ ClickGenerate
    \/ Transcribe
    \/ Compose
    \/ GenerateRunway
    \/ GenerateStability
    \/ GenerateHuggingface
    \/ DisplayVideo
    \/ ShowFailure

Spec == Init /\ [][Next]_vars

\* --------------------------------------------------------------- types
TypeOK ==
    /\ pc \in {"idle", "transcribe", "compose", "generate", "results"}
    /\ action \in 0..MaxActions
    /\ selected_api \in API_OPTIONS
    /\ api_key \in ApiKeys
    /\ video_path \in 0..Len(files)
    /\ transcription \in {<<>>, StoryText, FallbackText}

\* --------------------------------------------------------------- claims
GeneratorCalls == calls.runway + calls.stability + calls.huggingface

FilesOf(a) == {f \in DOMAIN files : files[f].creator = a}

C2_GeneratorFailureHandled ==
    faults.generate # NoExc
        => /\ ~faults.escaped
           /\ ~uncaught
           /\ calls.runway = 1 => "runway_error" \in ui
           /\ calls.stability = 1 => "stability_error" \in ui
           /\ calls.huggingface = 1 =>
                 ("hf_error" \in ui \/ "moviepy_required" \in ui)
           /\ pc = "results" => video_path = None
           /\ pc = "idle" =>
                 /\ "failed" \in ui
                 /\ ui \cap {"success", "video", "caption", "download"} = {}
                 /\ steps[Len(steps)] = "failure"

C2_Witness ==
    /\ pc = "idle"
    /\ faults.generate = "http_error"
    /\ calls.stability = 1
    /\ "failed" \in ui

\* C3: within one Generate action exactly one generator is called, the one
\* that matches selected_api, at most once, and it makes at most one
\* outbound request or one encode, whether or not the attempt succeeds.
C3_NoRetry ==
    /\ GeneratorCalls <= 1
    /\ calls.request + calls.encode <= 1
    /\ calls.request <= calls.runway + calls.stability
    /\ calls.encode <= calls.huggingface
    /\ GeneratorCalls = 1 =>
          /\ selected_api = "RunwayML" => calls.runway = 1
          /\ selected_api = "Stability AI" => calls.stability = 1
          /\ selected_api = "Hugging Face (Demo)" => calls.huggingface = 1
    /\ calls.runway + calls.stability = 1 => calls.request = 1
    /\ (pc = "results" \/ (pc = "idle" /\ steps # <<>>)) => GeneratorCalls = 1

C3_Witness ==
    /\ pc = "idle"
    /\ calls.request = 1
    /\ faults.generate = "timeout"
    /\ GeneratorCalls = 1

\* C4: transcribe_audio returns the "narrating a story" text when saving and
\* removing the temporary copy succeed and the "technology and innovation"
\* text when a step raises, whatever the audio; it never raises.
C4_TwoFixedTexts ==
    /\ transcription \in {<<>>, StoryText, FallbackText}
    /\ calls.transcribe = 1 =>
          /\ pc # "idle" =>
                transcription = (IF faults.transcribe = NoExc THEN StoryText
                                 ELSE FallbackText)
          /\ Len(steps) = 1 => pc = "compose"
          /\ ~uncaught
          /\ "traceback" \notin ui

C4_Witness ==
    /\ pc = "compose"
    /\ faults.transcribe # NoExc
    /\ transcription = FallbackText
    /\ audio_file = <<2, 3>>

\* C5 (as stated): for a prompt longer than the threshold the overlay is a
\* prefix of the prompt of about 200 characters.
C5_PrefixOfAbout200 ==
    (pc = "results" /\ rendered # <<>> /\ Len(final_prompt) > 210)
        => \E n \in 190..210, head \in {<<>>, OverlayHeader},
              tail \in {<<>>, Ellipsis} :
              rendered = head \o Slice(final_prompt, n) \o tail

\* C5 (amended): the overlay is the fixed header, then the first 100
\* characters of the prompt (the whole prompt when it is not longer), then
\* "..."; a prompt longer than 100 characters is never rendered in full.
C5_PrefixOf100 ==
    (pc = "results" /\ rendered # <<>>)
        => LET h == Len(OverlayHeader)
               k == Len(rendered) - h - Len(Ellipsis)
           IN  /\ k >= 0 /\ k <= PromptSlice /\ k <= Len(final_prompt)
               /\ SubSeq(rendered, 1, h) = OverlayHeader
               /\ \A i \in 1..k : rendered[h + i] = final_prompt[i]
               /\ SubSeq(rendered, h + k + 1, Len(rendered)) = Ellipsis
               /\ Len(final_prompt) > PromptSlice =>
                     k = PromptSlice /\ k < Len(final_prompt)
               /\ Len(final_prompt) <= PromptSlice => k = Len(final_prompt)

C5_Witness ==
    /\ pc = "results"
    /\ rendered # <<>>
    /\ Len(final_prompt) > 210
    /\ Len(rendered) = Len(OverlayHeader) + PromptSlice + Len(Ellipsis)

\* C6: a failure inside a Generate action ends only that action: no
\* exception leaves main, main is back at the page with none of its locals
\* kept, and the button can be pressed again.
C6_FailureEndsOnlyTheAction ==
    /\ ~uncaught
    /\ "traceback" \notin ui
    /\ pc = "idle" =>
          /\ transcription = <<>>
          /\ final_prompt = <<>>
          /\ video_path = None
    /\ (pc = "transcribe" /\ prevFailed) =>
          /\ steps = <<>> /\ calls = NoCalls /\ faults = NoFaults /\ ui = {}
          /\ transcription = <<>> /\ final_prompt = <<>> /\ video_path = None

C6_Witness ==
    /\ pc = "idle"
    /\ action > 1
    /\ prevFailed
    /\ faults = NoFaults
    /\ "download" \in ui

\* C7: every path a generator returns is a new temporary file: no two
\* returned paths are the same file, also for identical inputs, and a file
\* is read and deleted only by the action that created it.
C7_FreshFiles ==
    /\ \A i, j \in DOMAIN outputs :
          i # j => /\ outputs[i].path # outputs[j].path
                   /\ outputs[i].action # outputs[j].action
    /\ \A i \in DOMAIN outputs :
          /\ outputs[i].path \in DOMAIN files
          /\ files[outputs[i].path].creator = outputs[i].action
          /\ files[outputs[i].path].suffix = ".mp4"
    /\ \A a \in accesses :
          /\ a.file \in DOMAIN files
          /\ files[a.file].creator = a.by

C7_Witness ==
    /\ Len(outputs) = 2
    /\ outputs[2].action = action
    /\ \/ repeated = "story" /\ faults.transcribe = NoExc
       \/ repeated = "fallback" /\ faults.transcribe # NoExc
    /\ outputs[1].path # outputs[2].path
    /\ \E a \in accesses : a.file = outputs[2].path /\ a.op = "unlink"

\* C8: the steps of a Generate action run in the order transcription,
\* prompt composition, generator call, display, deletion; the generator is
\* not called before transcribe_audio returned and the success display does
\* not happen before a generator of this action returned an existing file.
C8_StepOrder ==
    /\ \E run \in {<<"transcribe", "compose", "generate", "display", "delete">>,
                   <<"transcribe", "compose", "generate", "failure">>} :
          /\ Len(steps) <= Len(run)
          /\ steps = SubSeq(run, 1, Len(steps))
    /\ GeneratorCalls > 0 =>
          calls.transcribe = 1 /\ Len(steps) >= 3
    /\ pc = "generate" => transcription # <<>> /\ final_prompt # <<>>
    /\ "success" \in ui =>
          /\ outputs # <<>>
          /\ outputs[Len(outputs)].action = action
          /\ outputs[Len(outputs)].path \in DOMAIN files
          /\ Len(steps) >= 4 /\ steps[3] = "generate" /\ steps[4] = "display"
    /\ pc = "idle" => (steps = <<>> \/ Len(steps) >= 4)

C8_Witness ==
    /\ pc = "idle"
    /\ steps = <<"transcribe", "compose", "generate", "display", "delete">>
    /\ "success" \in ui

\* C9: when a Generate action has finished, every temporary file created
\* during it has been deleted.
C9_NoTemporaryFileLeft ==
    pc = "idle" => \A f \in DOMAIN files : ~files[f].exists

\* C10: with an empty key and a service other than the Hugging Face demo the
\* action stops after the "API key required" message: no transcription, no
\* generator, no request, no temporary file. With the Hugging Face demo the
\* action goes on with an empty key.
C10_KeyGuard ==
    /\ faults.key =>
          /\ api_key = "" /\ selected_api # "Hugging Face (Demo)"
          /\ pc = "idle"
          /\ ui = {"key_required"}
          /\ calls = NoCalls
          /\ steps = <<>>
          /\ FilesOf(action) = {}
    /\ (action > 0 /\ api_key = "" /\ selected_api # "Hugging Face (Demo)")
          => faults.key
    /\ (action > 0 /\ ~faults.key) =>
          /\ "key_required" \notin ui
          /\ pc = "idle" => calls.transcribe = 1

C10_Witness ==
    /\ faults.key
    /\ action = 1
    /\ selected_api = "Stability AI"
    /\ ui = {"key_required"}

====
